---- MODULE Spec2Model ----
(***************************************************************************)
(* MyTimeline metadata enrichment pipeline: the directory scanner          *)
(* (image_scanner.py), the EXIF decoder (exif_extractor.py), the vision    *)
(* analysis client and tag deriver (image_analyzer.py), the batch          *)
(* endpoints (routes/processing.py) and the tables they write              *)
(* (models/__init__.py).                                                   *)
(*                                                                         *)
(* Text is a sequence of chunks (TLA+ strings).  Strings whose case and    *)
(* whitespace matter are spelled one character per chunk.  A confidence    *)
(* is an integer number of tenths (0.9 is 9); a float of the EXIF decoder  *)
(* is an exact fraction.                                                   *)
(***************************************************************************)
EXTENDS Integers, Sequences, FiniteSets, TLC

\* ------------------------------------------------------------------ bounds

\* longest free-form response text (in chunks)
MaxLen == 5

\* ---------------------------------------------------------------- strings

SetMin(S) == CHOOSE x \in S : \A y \in S : x <= y
SetMax(S) == CHOOSE x \in S : \A y \in S : y <= x

\* str.lower() on one character
LowerChar(c) ==
    CASE c = "D" -> "d"
      [] c = "O" -> "o"
      [] c = "A" -> "a"
      [] c = "R" -> "r"
      [] c = "P" -> "p"
      [] c = "N" -> "n"
      [] c = "G" -> "g"
      [] OTHER -> c

\* str.lower()
Lower(s) == [i \in 1..Len(s) |-> LowerChar(s[i])]

IsSpace(c) == c \in {" ", "\t", "\n"}

\* str.strip(): drop leading and trailing whitespace
Strip(s) ==
    LET keep == {i \in 1..Len(s) : ~IsSpace(s[i])}
    IN IF keep = {} THEN <<>> ELSE SubSeq(s, SetMin(keep), SetMax(keep))

\* ------------------------------------------------------------ JSON values

\* a decoded JSON value: string, number (tenths), null, list; Absent is
\* "the key is not in the object"
Str(s) == [t |-> "str", s |-> s, n |-> 0, l |-> <<>>]
Num(k) == [t |-> "num", s |-> <<>>, n |-> k, l |-> <<>>]
Null == [t |-> "null", s |-> <<>>, n |-> 0, l |-> <<>>]
List(q) == [t |-> "list", s |-> <<>>, n |-> 0, l |-> q]
Absent == [t |-> "absent", s |-> <<>>, n |-> 0, l |-> <<>>]

\* list elements: strings and nulls
EStr(s) == [t |-> "str", s |-> s]
ENull == [t |-> "null", s |-> <<>>]

\* Python truthiness of a decoded value
Truthy(v) ==
    CASE v.t = "str" -> v.s # <<>>
      [] v.t = "num" -> v.n # 0
      [] v.t = "list" -> v.l # <<>>
      [] OTHER -> FALSE

\* the keys the parser reads, and one it does not
Keys == {"description", "objects", "people", "scene_type", "activities", "confidence"}
AllKeys == Keys \cup {"mood"}

\* the member texts the service may put in an object, with what json.loads
\* makes of each
MemberTable ==
    { [text |-> "\"description\":\"a dog\"", key |-> "description", val |-> Str(<<"a dog">>)],
      [text |-> "\"objects\":[\"Dog\",\" cat \"]", key |-> "objects",
         val |-> List(<<EStr(<<"D", "o", "g">>), EStr(<<" ", "c", "a", "t", " ">>)>>)],
      [text |-> "\"objects\":[\" \",null]", key |-> "objects", val |-> List(<<EStr(<<" ">>), ENull>>)],
      [text |-> "\"people\":[\"Ann\"]", key |-> "people", val |-> List(<<EStr(<<"A", "n", "n">>)>>)],
      [text |-> "\"people\":[\"Ann\",\"\",null]", key |-> "people",
         val |-> List(<<EStr(<<"A", "n", "n">>), EStr(<<>>), ENull>>)],
      [text |-> "\"scene_type\":\"Outdoor\"", key |-> "scene_type",
         val |-> Str(<<"O", "u", "t", "d", "o", "o", "r">>)],
      [text |-> "\"scene_type\":\" \"", key |-> "scene_type", val |-> Str(<<" ">>)],
      [text |-> "\"scene_type\":5", key |-> "scene_type", val |-> Num(50)],
      [text |-> "\"activities\":[\"Run\"]", key |-> "activities", val |-> List(<<EStr(<<"R", "u", "n">>)>>)],
      [text |-> "\"confidence\":0.9", key |-> "confidence", val |-> Num(9)],
      [text |-> "\"confidence\":1.5", key |-> "confidence", val |-> Num(15)],
      [text |-> "\"confidence\":\"0.9\"", key |-> "confidence", val |-> Str(<<"0.9">>)],
      [text |-> "\"confidence\":\"high\"", key |-> "confidence", val |-> Str(<<"high">>)],
      [text |-> "\"confidence\":null", key |-> "confidence", val |-> Null],
      [text |-> "\"mood\":\"happy\"", key |-> "mood", val |-> Str(<<"happy">>)] }

MemberTexts == {m.text : m \in MemberTable}
IsMember(c) == c \in MemberTexts
MemberOf(c) == CHOOSE m \in MemberTable : m.text = c

\* ------------------------------------------------- _parse_response (regex)

\* re.search(r'\{.*\}', text, re.DOTALL): the match starts at the first "{"
\* that has a "}" after it and, .* being greedy, ends at the last "}"
BraceSpan(text) ==
    LET opens == {i \in 1..Len(text) : text[i] = "{"}
        closes == {j \in 1..Len(text) : text[j] = "}"}
    IN IF \E i \in opens, j \in closes : i < j
       THEN [found |-> TRUE, from |-> SetMin(opens), to |-> SetMax(closes)]
       ELSE [found |-> FALSE, from |-> 0, to |-> 0]

\* ---------------------------------------------------------- json.loads

EmptyObj == [k \in AllKeys |-> Absent]
DecodeFail == [ok |-> FALSE, obj |-> EmptyObj]

\* the members of an object after its "{": member ("," member)* "}" and
\* nothing after the "}"; a repeated key keeps its last value
RECURSIVE DecodeMembers(_, _, _)
DecodeMembers(toks, expect, acc) ==
    IF toks = <<>> THEN DecodeFail
    ELSE LET h == Head(toks) IN
         IF h = "}"
         THEN IF expect \in {"first", "sep"} /\ Len(toks) = 1
              THEN [ok |-> TRUE, obj |-> acc]
              ELSE DecodeFail
         ELSE IF h = ","
         THEN IF expect = "sep" THEN DecodeMembers(Tail(toks), "member", acc) ELSE DecodeFail
         ELSE IF IsMember(h)
         THEN IF expect \in {"first", "member"}
              THEN DecodeMembers(Tail(toks), "sep",
                                 [acc EXCEPT ![MemberOf(h).key] = MemberOf(h).val])
              ELSE DecodeFail
         ELSE DecodeFail

\* json.loads(json_str): ok = FALSE is json.JSONDecodeError
JsonLoads(span) ==
    IF span # <<>> /\ Head(span) = "{"
    THEN DecodeMembers(Tail(span), "first", EmptyObj)
    ELSE DecodeFail

\* dict.get(key, default)
Get(obj, key, default) == IF obj[key] = Absent THEN default ELSE obj[key]

\* the strings float() accepts, with their values
NumericStrings == {<<"0.9">>}
FloatOfString(s) == 9

\* float(v): TypeError for None and lists, ValueError for a string that is
\* no number
Float(v) ==
    CASE v.t = "num" -> [exc |-> "none", f |-> v.n]
      [] v.t = "str" -> IF v.s \in NumericStrings
                        THEN [exc |-> "none", f |-> FloatOfString(v.s)]
                        ELSE [exc |-> "ValueError", f |-> 0]
      [] OTHER -> [exc |-> "TypeError", f |-> 0]

\* the defaults of the structured path and the constants of the fallback
DefaultConfidence == 5
FallbackConfidence == 3
DefaultSceneType == Str(<<"unknown">>)

\* a fallback that keeps the structured path's default confidence
FallbackSameConfidence(text) ==
    [description |-> Str(text), objects |-> List(<<>>), people |-> List(<<>>),
     scene_type |-> Str(<<"unknown">>), activities |-> List(<<>>),
     confidence |-> DefaultConfidence]

Fallback(text) ==
    [description |-> Str(text), objects |-> List(<<>>), people |-> List(<<>>),
     scene_type |-> Str(<<"unknown">>), activities |-> List(<<>>),
     confidence |-> FallbackConfidence]

NoResult ==
    [description |-> Null, objects |-> Null, people |-> Null,
     scene_type |-> Null, activities |-> Null, confidence |-> 0]

Structured(data, conf) ==
    [description |-> Get(data, "description", Str(<<>>)),
     objects |-> Get(data, "objects", List(<<>>)),
     people |-> Get(data, "people", List(<<>>)),
     scene_type |-> Get(data, "scene_type", DefaultSceneType),
     activities |-> Get(data, "activities", List(<<>>)),
     confidence |-> conf]

\* ImageAnalyzer._parse_response: only json.JSONDecodeError is caught, so
\* an exception of float() leaves the function
ParseResponse(text) ==
    LET m == BraceSpan(text) IN
    IF m.found
    THEN LET d == JsonLoads(SubSeq(text, m.from, m.to)) IN
         IF d.ok
         THEN LET c == Float(Get(d.obj, "confidence", Num(DefaultConfidence))) IN
              IF c.exc = "none"
              THEN [exc |-> "none", val |-> Structured(d.obj, c.f)]
              ELSE [exc |-> c.exc, val |-> NoResult]
         ELSE [exc |-> "none", val |-> Fallback(text)]
    ELSE [exc |-> "none", val |-> Fallback(text)]

\* ------------------------------------------- _create_tags_from_analysis

\* a tag that takes the default confidence instead of the result's
TagDefaultConfidence(image_id, name, type, conf) ==
    [image_id |-> image_id, tag_name |-> name, tag_type |-> type,
     confidence |-> DefaultConfidence]

Tag(image_id, name, type, conf) ==
    [image_id |-> image_id, tag_name |-> name, tag_type |-> type, confidence |-> conf]

\* "if obj and isinstance(obj, str)": the label is obj.lower().strip()
RECURSIVE TagsOfElems(_, _, _, _)
TagsOfElems(image_id, elems, type, conf) ==
    IF elems = <<>> THEN <<>>
    ELSE LET e == Head(elems)
             rest == TagsOfElems(image_id, Tail(elems), type, conf)
         IN IF e.t = "str" /\ e.s # <<>>
            THEN <<Tag(image_id, Strip(Lower(e.s)), type, conf)>> \o rest
            ELSE rest

\* "for obj in analysis_data.get(key, [])": a list gives its elements, a
\* string its characters, None and numbers are not iterable (TypeError)
TagsOfField(image_id, v, type, conf) ==
    CASE v.t = "list" -> [exc |-> "none", tags |-> TagsOfElems(image_id, v.l, type, conf)]
      [] v.t = "str" ->
           [exc |-> "none",
            tags |-> TagsOfElems(image_id, [i \in 1..Len(v.s) |-> EStr(<<v.s[i]>>)], type, conf)]
      [] OTHER -> [exc |-> "TypeError", tags |-> <<>>]

\* "if scene_type:" then scene_type.lower().strip(); a truthy value that is
\* no string has no lower() (AttributeError)
TagsOfScene(image_id, v, conf) ==
    IF ~Truthy(v) THEN [exc |-> "none", tags |-> <<>>]
    ELSE IF v.t = "str"
    THEN [exc |-> "none", tags |-> <<Tag(image_id, Strip(Lower(v.s)), "scene", conf)>>]
    ELSE [exc |-> "AttributeError", tags |-> <<>>]

\* ImageAnalyzer._create_tags_from_analysis: objects, people, scene_type,
\* activities in this order; the first exception ends it
CreateTags(image_id, data) ==
    LET o == TagsOfField(image_id, data.objects, "object", data.confidence)
        p == TagsOfField(image_id, data.people, "person", data.confidence)
        s == TagsOfScene(image_id, data.scene_type, data.confidence)
        a == TagsOfField(image_id, data.activities, "activity", data.confidence)
    IN IF o.exc # "none" THEN [exc |-> o.exc, tags |-> <<>>]
       ELSE IF p.exc # "none" THEN [exc |-> p.exc, tags |-> <<>>]
       ELSE IF s.exc # "none" THEN [exc |-> s.exc, tags |-> <<>>]
       ELSE IF a.exc # "none" THEN [exc |-> a.exc, tags |-> <<>>]
       ELSE [exc |-> "none", tags |-> o.tags \o p.tags \o s.tags \o a.tags]

\* ------------------------------------------------- _analyze_with_llava

\* what ollama_client.chat does: it raises, or it answers with a text
ServiceError == [kind |-> "error", text |-> <<>>]
ServiceText(text) == [kind |-> "text", text |-> text]

WithRaw(val, raw) ==
    [description |-> val.description, objects |-> val.objects, people |-> val.people,
     scene_type |-> val.scene_type, activities |-> val.activities,
     confidence |-> val.confidence, raw_response |-> raw]

\* an analyzer that keeps the JSON span it decoded instead of the response
AnalyzeWithLlavaKeepsSpan(outcome) ==
    IF outcome.kind = "error"
    THEN [none |-> TRUE, data |-> WithRaw(NoResult, <<>>)]
    ELSE LET r == ParseResponse(outcome.text)
             m == BraceSpan(outcome.text)
         IN
         IF r.exc # "none"
         THEN [none |-> TRUE, data |-> WithRaw(NoResult, <<>>)]
         ELSE [none |-> FALSE,
               data |-> WithRaw(r.val, IF m.found THEN SubSeq(outcome.text, m.from, m.to)
                                       ELSE outcome.text)]

\* ImageAnalyzer._analyze_with_llava: every exception of the call and of the
\* parse is caught and None is returned
AnalyzeWithLlava(outcome) ==
    IF outcome.kind = "error"
    THEN [none |-> TRUE, data |-> WithRaw(NoResult, <<>>)]
    ELSE LET r == ParseResponse(outcome.text) IN
         IF r.exc # "none"
         THEN [none |-> TRUE, data |-> WithRaw(NoResult, <<>>)]
         ELSE [none |-> FALSE, data |-> WithRaw(r.val, outcome.text)]

\* ------------------------------------------------------------ the tables

\* a path string: the form it is written in and the file it names.
\* Path.absolute() gives the "abs" form of the same file
PathOf(form, f) == [form |-> form, file |-> f]
Absolute(path) == [form |-> "abs", file |-> path.file]

\* json.dumps of a list field: the text of the JSON array
RECURSIVE DumpElems(_)
DumpElems(elems) ==
    IF elems = <<>> THEN <<>>
    ELSE (IF Head(elems).t = "str" THEN <<"\"">> \o Head(elems).s \o <<"\"">> ELSE <<"null">>)
         \o (IF Len(elems) > 1 THEN <<", ">> ELSE <<>>)
         \o DumpElems(Tail(elems))

Dumps(v) ==
    CASE v.t = "list" -> <<"[">> \o DumpElems(v.l) \o <<"]">>
      [] v.t = "str" -> <<"\"">> \o v.s \o <<"\"">>
      [] v.t = "num" -> <<ToString(v.n)>>
      [] OTHER -> <<"null">>

\* the AIAnalysis row analyze_image builds from analysis_data
AIAnalysis(image_id, data) ==
    [image_id |-> image_id,
     description |-> data.description,
     detected_objects |-> Dumps(data.objects),
     detected_people |-> Dumps(data.people),
     scene_type |-> data.scene_type,
     confidence_score |-> data.confidence,
     raw_response |-> data.raw_response]

\* an AsyncSession of a request: the rows added and not yet committed,
\* whether a failed flush has left its transaction inactive, and whether a
\* rollback has expired the objects loaded through it (a rollback expires
\* every object of the session whatever expire_on_commit says; reading an
\* attribute of an expired object needs a load, which raises outside of an
\* await)
NewSession == [analysis |-> <<>>, tags |-> <<>>, inactive |-> FALSE, expired |-> FALSE]

SeqToSet(q) == {q[i] : i \in 1..Len(q)}

\* ai_analysis.image_id is unique: a flush of the staged rows fails when one
\* of them repeats an image_id of the table or of another staged row
FlushConflict(table, staged) ==
    \/ \E i \in 1..Len(staged) : \E a \in table : a.image_id = staged[i].image_id
    \/ \E i, j \in 1..Len(staged) : i # j /\ staged[i].image_id = staged[j].image_id

\* -------------------------------------------------------- analyze_image

\* the first await of analyze_image: the select of the image autoflushes
\* the staged rows (a failed flush rolls back and leaves the session
\* inactive); a missing image raises ValueError
SelectImage(imgs, tab, sess, image_id) ==
    IF sess.inactive THEN [ret |-> "PendingRollbackError", session |-> sess]
    ELSE IF FlushConflict(tab, sess.analysis)
    THEN [ret |-> "IntegrityError",
          session |-> [analysis |-> <<>>, tags |-> <<>>, inactive |-> TRUE, expired |-> TRUE]]
    ELSE IF ~\E im \in imgs : im.id = image_id
    THEN [ret |-> "ValueError", session |-> sess]
    ELSE [ret |-> "Image", session |-> sess]

\* analyze_image after its select found the image in imgs: a missing file
\* raises ValueError; everything from the service call to the commit is
\* inside "try ... except Exception: return None"; a rejected commit rolls
\* the session back.  called: the service was called.
AnalyzeSelected(imgs, files, tab, tgs, sess, image_id, outcome) ==
    LET same(ret, s, called) ==
            [ret |-> ret, analysis |-> tab, tags |-> tgs, session |-> s, called |-> called]
        image == CHOOSE im \in imgs : im.id = image_id
    IN
    IF files[image.file_path.file] = "none" THEN same("ValueError", sess, FALSE)
    ELSE LET r == AnalyzeWithLlava(outcome) IN
         IF r.none THEN same("None", sess, TRUE)
         ELSE LET staged1 == [sess EXCEPT !.analysis = Append(@, AIAnalysis(image_id, r.data))]
                  t == CreateTags(image_id, r.data)
              IN IF t.exc # "none" THEN same("None", staged1, TRUE)
                 ELSE LET staged2 == [staged1 EXCEPT !.tags = @ \o t.tags] IN
                      IF FlushConflict(tab, staged2.analysis)
                      THEN same("None", [NewSession EXCEPT !.expired = TRUE], TRUE)
                      ELSE [ret |-> "AIAnalysis",
                            analysis |-> tab \cup SeqToSet(staged2.analysis),
                            tags |-> tgs \o staged2.tags,
                            session |-> [NewSession EXCEPT !.expired = sess.expired],
                            called |-> TRUE]

\* ImageAnalyzer.analyze_image on a session, with nothing happening
\* between its select and its commit
AnalyzeImage(imgs, files, tab, tgs, sess, image_id, outcome) ==
    LET sel == SelectImage(imgs, tab, sess, image_id) IN
    IF sel.ret # "Image"
    THEN [ret |-> sel.ret, analysis |-> tab, tags |-> tgs, session |-> sel.session,
          called |-> FALSE]
    ELSE AnalyzeSelected(imgs, files, tab, tgs, sess, image_id, outcome)

\* ---------------------------------------------------------- the scanner

\* files of the catalogue
NumFiles == 2
Files == 1..NumFiles

\* where a file of the catalogue lies and how its name ends
FileDir(f) == IF f % 2 = 0 THEN "sub" ELSE "top"
FileSuffix(f) ==
    IF f % 3 = 0 THEN <<".", "t", "x", "t">>
    ELSE IF f % 2 = 0 THEN <<".", "P", "N", "G">>
    ELSE <<".", "j", "p", "g">>

\* ImageScanner.SUPPORTED_EXTENSIONS
SUPPORTED_EXTENSIONS ==
    { <<".", "j", "p", "g">>, <<".", "j", "p", "e", "g">>, <<".", "p", "n", "g">>,
      <<".", "g", "i", "f">>, <<".", "b", "m", "p">>, <<".", "t", "i", "f", "f">>,
      <<".", "t", "i", "f">>, <<".", "h", "e", "i", "c">>, <<".", "h", "e", "i", "f">>,
      <<".", "w", "e", "b", "p">> }

\* ImageScanner._is_image_file
IsImageFile(f) == Lower(FileSuffix(f)) \in SUPPORTED_EXTENSIONS

\* the folders a scan may be asked for: the tree's top folder or its
\* subfolder, written absolute or relative to the working directory; a
\* path that does not exist; a path that is a regular file
Roots == [form : {"abs", "rel"}, kind : {"top", "sub", "missing", "file"}]

Under(f, kind) == kind = "top" \/ FileDir(f) = kind

\* ImageScanner._find_images: os.walk lists every non-directory entry below
\* the folder (a dangling link too); iterdir keeps the immediate children
\* for which is_file() holds
Found(files, root, recursive) ==
    {f \in Files :
        /\ IsImageFile(f)
        /\ IF recursive
           THEN files[f] # "none" /\ Under(f, root.kind)
           ELSE files[f] = "file" /\ FileDir(f) = root.kind}

RECURSIVE SetToSeq(_)
SetToSeq(S) == IF S = {} THEN <<>> ELSE <<SetMin(S)>> \o SetToSeq(S \ {SetMin(S)})

\* str(e) of the exception of image_path.stat()
StatError == "No such file or directory"

NoCounts == [new |-> 0, skipped |-> 0, errors |-> 0, error_files |-> <<>>, staged |-> <<>>]

\* the loop of scan_folder over image_files: a path known to the table is
\* skipped; _add_image stats the file (an exception counts as an error) and
\* stages an Image with the absolute path
\* a loop that counts a file as new before _add_image has read its stats
RECURSIVE ScanLoopCountsFirst(_, _, _, _, _)
ScanLoopCountsFirst(todo, form, existing, files, acc) ==
    IF todo = <<>> THEN acc
    ELSE LET f == Head(todo)
             image_path == PathOf(form, f)
         IN ScanLoopCountsFirst(Tail(todo), form, existing, files,
               IF image_path \in existing
               THEN [acc EXCEPT !.skipped = @ + 1]
               ELSE IF files[f] # "file"
               THEN [acc EXCEPT !.new = @ + 1, !.errors = @ + 1,
                                !.error_files = Append(@, [path |-> image_path,
                                                           error |-> StatError])]
               ELSE [acc EXCEPT !.new = @ + 1, !.staged = Append(@, Absolute(image_path))])

RECURSIVE ScanLoop(_, _, _, _, _)
ScanLoop(todo, form, existing, files, acc) ==
    IF todo = <<>> THEN acc
    ELSE LET f == Head(todo)
             image_path == PathOf(form, f)
         IN ScanLoop(Tail(todo), form, existing, files,
               IF image_path \in existing
               THEN [acc EXCEPT !.skipped = @ + 1]
               ELSE IF files[f] # "file"
               THEN [acc EXCEPT !.errors = @ + 1,
                                !.error_files = Append(@, [path |-> image_path,
                                                           error |-> StatError])]
               ELSE [acc EXCEPT !.new = @ + 1, !.staged = Append(@, Absolute(image_path))])

\* a table without the unique constraint on file_path
NoPathConstraint(table, staged) == FALSE

\* images.file_path is unique: the commit fails when a staged path is in
\* the table already, or is staged twice
PathConflict(table, staged) ==
    \/ \E i \in 1..Len(staged) : \E im \in table : im.file_path = staged[i]
    \/ \E i, j \in 1..Len(staged) : i # j /\ staged[i] = staged[j]

\* the rows an insert of the staged paths adds: ids count on from the
\* largest id of the table
Inserted(table, staged) ==
    LET base == IF table = {} THEN 0 ELSE SetMax({im.id : im \in table})
    IN {[id |-> base + i, file_path |-> staged[i]] : i \in 1..Len(staged)}

ScanIdle ==
    [pc |-> "idle", root |-> [form |-> "abs", kind |-> "top"], recursive |-> TRUE,
     existing |-> {}]

\* nothing has been done since request who began; follows: it began right
\* after an undisturbed scan of the same folder returned its result
Nobody == [who |-> "none", follows |-> FALSE]

NoScanResult ==
    [status |-> "none", detail |-> "", root |-> [form |-> "abs", kind |-> "top"],
     recursive |-> TRUE, found |-> 0, new |-> 0, skipped |-> 0, errors |-> 0,
     error_files |-> <<>>, clean |-> FALSE, second |-> FALSE]

\* a check of the folder that only asks whether the path exists
RootCheckExistsOnly(root) ==
    IF root.kind = "missing"
    THEN [status |-> "HTTP400", detail |-> "Folder does not exist"]
    ELSE [status |-> "ok", detail |-> ""]

\* the checks of the folder before anything is read: scan_images answers
\* 400 for a path that does not exist; scan_folder raises ValueError for a
\* path that is no directory, which scan_images turns into a 500
RootCheck(root) ==
    CASE root.kind = "missing" -> [status |-> "HTTP400", detail |-> "Folder does not exist"]
      [] root.kind = "file" ->
           [status |-> "HTTP500", detail |-> "Error scanning folder: Path is not a directory"]
      [] OTHER -> [status |-> "ok", detail |-> ""]

Scanners == {"s1", "s2"}

\* ------------------------------------------------------- POST /analyze

\* "error_details": errors[:10]
ErrorDetailCap == 10

\* the loop state of a batch route (analyze_images, extract_exif_batch):
\* the images still to do, the counters, the error list, the request's
\* session, and the images table as the select of the unit of work under
\* way has read it (pc = "working": between that select and the commit); serviceErrors counts the images of this run for which
\* the service call raised, otherFailures those for which analyze_image
\* raised before it called the service
BatchIdle ==
    [pc |-> "idle", todo |-> <<>>, total |-> 0, success |-> 0, errors |-> 0,
     error_details |-> <<>>, session |-> NewSession, serviceErrors |-> 0,
     otherFailures |-> 0, seen |-> {}, route |-> "analyze"]

NoBatchResult ==
    [status |-> "none", route |-> "analyze", total_processed |-> 0, success |-> 0,
     errors |-> 0, error_details |-> <<>>, serviceErrors |-> 0, otherFailures |-> 0]

\* an exception that leaves the route: the request is answered with 500
\* and no summary
BatchRaised == [NoBatchResult EXCEPT !.status = "HTTP500"]

\* the queries of analyze_images: the listed ids, the images without an
\* analysis, or all of them
Selected(imgs, tab, request) ==
    IF request.image_ids # {}
    THEN {im.id : im \in {x \in imgs : x.id \in request.image_ids}}
    ELSE IF ~request.force
    THEN {im.id : im \in {x \in imgs : ~\E a \in tab : a.image_id = x.id}}
    ELSE {im.id : im \in imgs}

Requests == [image_ids : SUBSET Files, force : BOOLEAN]

\* the answers the service gives during a batch: prose around a full
\* object, prose alone, an object with a null confidence, an object whose
\* scene_type is a number
BatchTexts ==
    { <<"Sure!", "{", "\"description\":\"a dog\"", ",", "\"objects\":[\"Dog\",\" cat \"]", ",",
        "\"scene_type\":\"Outdoor\"", ",", "\"confidence\":0.9", "}", "Hope that helps!">>,
      <<"Sure!">>,
      <<"{", "\"confidence\":null", "}">>,
      <<"{", "\"scene_type\":5", "}">> }

ServiceOutcomes == {ServiceError} \cup {ServiceText(t) : t \in BatchTexts}

\* the summary analyze_images returns after its loop
Summary(b) ==
    [status |-> "returned", route |-> b.route, total_processed |-> b.total,
     success |-> b.success, errors |-> b.errors,
     error_details |-> SubSeq(b.error_details, 1,
                              IF Len(b.error_details) < ErrorDetailCap
                              THEN Len(b.error_details) ELSE ErrorDetailCap),
     serviceErrors |-> b.serviceErrors, otherFailures |-> b.otherFailures]

\* ------------------------------------------------------ the EXIF decoder

\* a tag value of the dictionary piexif.load returns: bytes (s, or the six
\* numbers of a "YYYY:MM:DD HH:MM:SS" text in date), bytes that are no
\* UTF-8, an int, a rational (n, d), three rationals (dms), or no such tag
XAbsent == [t |-> "absent", s |-> <<>>, n |-> 0, d |-> 0, dms |-> <<>>, date |-> <<>>]
XBytes(s) == [t |-> "bytes", s |-> s, n |-> 0, d |-> 0, dms |-> <<>>, date |-> <<>>]
XDateBytes(q) == [t |-> "bytes", s |-> <<>>, n |-> 0, d |-> 0, dms |-> <<>>, date |-> q]
XBadBytes == [t |-> "badbytes", s |-> <<>>, n |-> 0, d |-> 0, dms |-> <<>>, date |-> <<>>]
XInt(n) == [t |-> "int", s |-> <<>>, n |-> n, d |-> 0, dms |-> <<>>, date |-> <<>>]
XRat(n, d) == [t |-> "rat", s |-> <<>>, n |-> n, d |-> d, dms |-> <<>>, date |-> <<>>]
XDms(q) == [t |-> "dms", s |-> <<>>, n |-> 0, d |-> 0, dms |-> q, date |-> <<>>]

\* a column value of exif_data: NULL, an integer, a float (the fraction
\* num/den in lowest terms, den > 0), a string, a datetime (year, month,
\* day, hour, minute, second)
ONull == [t |-> "null", s |-> <<>>, num |-> 0, den |-> 1, dt |-> <<>>]
OInt(n) == [t |-> "int", s |-> <<>>, num |-> n, den |-> 1, dt |-> <<>>]
OStr(s) == [t |-> "str", s |-> s, num |-> 0, den |-> 1, dt |-> <<>>]
ODate(q) == [t |-> "datetime", s |-> <<>>, num |-> 0, den |-> 1, dt |-> q]

RECURSIVE GCD(_, _)
GCD(a, b) == IF b = 0 THEN a ELSE GCD(b, a % b)

Abs(x) == IF x < 0 THEN 0 - x ELSE x

\* the float num/den (den # 0), kept exact
OFloat(num, den) ==
    LET g == GCD(Abs(num), Abs(den))
        sign == IF den < 0 THEN 0 - 1 ELSE 1
    IN [t |-> "float", s |-> <<>>, num |-> sign * (num \div g), den |-> sign * (den \div g),
        dt |-> <<>>]

Negate(v) == [v EXCEPT !.num = 0 - @]

\* bytes.decode('utf-8'): ok = FALSE is an exception (UnicodeDecodeError,
\* or AttributeError for a value that is no bytes)
Decode(v) == [ok |-> v.t = "bytes", s |-> v.s, date |-> v.date]

DaysIn(year, month) ==
    IF month \in {4, 6, 9, 11} THEN 30
    ELSE IF month # 2 THEN 31
    ELSE IF year % 4 = 0 /\ (year % 100 # 0 \/ year % 400 = 0) THEN 29
    ELSE 28

\* datetime.strptime(text, "%Y:%m:%d %H:%M:%S"): the text must have the six
\* number groups of the pattern and each must be in range (ValueError)
StrpTime(text) ==
    IF /\ Len(text.date) = 6
       /\ text.date[1] \in 1..9999
       /\ text.date[2] \in 1..12
       /\ text.date[3] \in 1..DaysIn(text.date[1], text.date[2])
       /\ text.date[4] \in 0..23
       /\ text.date[5] \in 0..59
       /\ text.date[6] \in 0..61
    THEN [ok |-> TRUE,
          val |-> ODate(text.date)]
    ELSE [ok |-> FALSE, val |-> ONull]

\* decode and parse one date tag
DateOf(v) == IF Decode(v).ok THEN StrpTime(Decode(v)) ELSE [ok |-> FALSE, val |-> ONull]

\* a date extractor that asks the file datetime first
ExtractDateTakenGenericFirst(original, generic) ==
    IF generic.t # "absent" THEN DateOf(generic).val
    ELSE IF original.t # "absent" THEN DateOf(original).val
    ELSE ONull

\* ExifExtractor._extract_date_taken: DateTimeOriginal when the tag is
\* there, else DateTime; an exception on the way ends in "return None"
ExtractDateTaken(original, generic) ==
    IF original.t # "absent" THEN DateOf(original).val
    ELSE IF generic.t # "absent" THEN DateOf(generic).val
    ELSE ONull

\* _extract_camera_make, _extract_camera_model, _extract_lens_model
ExtractText(v) ==
    IF v.t # "absent" /\ Decode(v).ok THEN OStr(Strip(Decode(v).s)) ELSE ONull

\* _extract_iso, _extract_orientation, _extract_width, _extract_height:
\* int(value), a TypeError for a tuple
ExtractInt(v) == IF v.t = "int" THEN OInt(v.n) ELSE ONull

\* _extract_aperture, _extract_focal_length: float(n) / float(d) for a
\* tuple (ZeroDivisionError for d = 0), float(value) else
ExtractRatio(v) ==
    CASE v.t = "rat" -> IF v.d # 0 THEN OFloat(v.n, v.d) ELSE ONull
      [] v.t = "int" -> OFloat(v.n, 1)
      [] OTHER -> ONull

\* str() of a tuple of two ints
StrOfPair(n, d) == <<"(", ToString(n), ", ", ToString(d), ")">>

\* ExifExtractor._extract_shutter_speed: "n/d" for a tuple with d # 0; a
\* tuple with d = 0 falls through to "return str(exposure)"
ExtractShutterSpeed(v) ==
    CASE v.t = "rat" -> IF v.d # 0 THEN OStr(<<ToString(v.n), "/", ToString(v.d)>>)
                        ELSE OStr(StrOfPair(v.n, v.d))
      [] v.t = "int" -> OStr(<<ToString(v.n)>>)
      [] OTHER -> ONull

\* ExifExtractor._convert_gps_to_decimal: degrees + minutes / 60 +
\* seconds / 3600 of three rationals; ok = FALSE is an exception (a zero
\* denominator, fewer than three rationals, a value that is no tuple)
ConvertGpsToDecimal(v) ==
    IF /\ v.t = "dms"
       /\ Len(v.dms) >= 3
       /\ \A i \in 1..3 : v.dms[i][2] # 0
    THEN [ok |-> TRUE,
          val |-> OFloat(v.dms[1][1] * v.dms[2][2] * v.dms[3][2] * 3600
                           + v.dms[2][1] * v.dms[1][2] * v.dms[3][2] * 60
                           + v.dms[3][1] * v.dms[1][2] * v.dms[2][2],
                         v.dms[1][2] * v.dms[2][2] * v.dms[3][2] * 3600)]
    ELSE [ok |-> FALSE, val |-> ONull]

GpsUnset == [exc |-> FALSE, val |-> ONull]
GpsRaised == [exc |-> TRUE, val |-> ONull]

\* a coordinate that needs no reference tag: without one it is positive
CoordinateNoRef(magnitude, ref, negative) ==
    IF magnitude.t = "absent" THEN GpsUnset
    ELSE IF ~ConvertGpsToDecimal(magnitude).ok THEN GpsRaised
    ELSE IF ref.t = "absent" THEN [exc |-> FALSE, val |-> ConvertGpsToDecimal(magnitude).val]
    ELSE IF ~Decode(ref).ok THEN GpsRaised
    ELSE [exc |-> FALSE,
          val |-> IF Decode(ref).s = negative
                  THEN Negate(ConvertGpsToDecimal(magnitude).val)
                  ELSE ConvertGpsToDecimal(magnitude).val]

\* one coordinate of _extract_gps: "if GPSLatitude in gps and
\* GPSLatitudeRef in gps", the conversion, the decoded reference, the sign
Coordinate(magnitude, ref, negative) ==
    IF magnitude.t = "absent" \/ ref.t = "absent" THEN GpsUnset
    ELSE IF ~ConvertGpsToDecimal(magnitude).ok THEN GpsRaised
    ELSE IF ~Decode(ref).ok THEN GpsRaised
    ELSE [exc |-> FALSE,
          val |-> IF Decode(ref).s = negative
                  THEN Negate(ConvertGpsToDecimal(magnitude).val)
                  ELSE ConvertGpsToDecimal(magnitude).val]

\* the altitude of _extract_gps
Altitude(v) ==
    CASE v.t = "absent" -> GpsUnset
      [] v.t = "rat" -> IF v.d # 0 THEN [exc |-> FALSE, val |-> OFloat(v.n, v.d)] ELSE GpsRaised
      [] v.t = "int" -> [exc |-> FALSE, val |-> OFloat(v.n, 1)]
      [] OTHER -> GpsRaised

NoGps == [latitude |-> ONull, longitude |-> ONull, altitude |-> ONull]

\* what the three parts of _extract_gps give together: one try block spans
\* them, and its except returns None
GpsOf(lat, lon, alt) ==
    IF lat.exc \/ lon.exc \/ alt.exc THEN NoGps
    ELSE [latitude |-> lat.val, longitude |-> lon.val, altitude |-> alt.val]

\* ExifExtractor._extract_gps
ExtractGps(tgs) ==
    GpsOf(Coordinate(tgs.GPSLatitude, tgs.GPSLatitudeRef, <<"S">>),
          Coordinate(tgs.GPSLongitude, tgs.GPSLongitudeRef, <<"W">>),
          Altitude(tgs.GPSAltitude))

\* the ExifData row of extract_from_image, given what _extract_gps returned
ExifData(image_id, tgs, gps) ==
    [image_id |-> image_id,
     date_taken |-> ExtractDateTaken(tgs.DateTimeOriginal, tgs.DateTime),
     camera_make |-> ExtractText(tgs.Make),
     camera_model |-> ExtractText(tgs.Model),
     lens_model |-> ExtractText(tgs.LensModel),
     iso |-> ExtractInt(tgs.ISOSpeedRatings),
     aperture |-> ExtractRatio(tgs.FNumber),
     shutter_speed |-> ExtractShutterSpeed(tgs.ExposureTime),
     focal_length |-> ExtractRatio(tgs.FocalLength),
     orientation |-> ExtractInt(tgs.Orientation),
     width |-> ExtractInt(tgs.PixelXDimension),
     height |-> ExtractInt(tgs.PixelYDimension),
     gps_latitude |-> gps.latitude,
     gps_longitude |-> gps.longitude,
     gps_altitude |-> gps.altitude]

ExifTags ==
    {"DateTimeOriginal", "DateTime", "Make", "Model", "LensModel", "ISOSpeedRatings",
     "FNumber", "ExposureTime", "FocalLength", "Orientation", "PixelXDimension",
     "PixelYDimension", "GPSLatitude", "GPSLatitudeRef", "GPSLongitude", "GPSLongitudeRef",
     "GPSAltitude"}

NoTags == [k \in ExifTags |-> XAbsent]

\* what a file holds: no EXIF block, a block piexif.load rejects, or a block
\* with its tags
NoBlock == [kind |-> "noexif", tags |-> NoTags]
CorruptBlock == [kind |-> "corrupt", tags |-> NoTags]
Block(tgs) == [kind |-> "dict", tags |-> tgs]

\* a decoder that takes a file without a block for one with no tags
ExtractExifDictEmptyForNone(files, path, m) ==
    IF files[path.file] # "file" THEN [none |-> TRUE, tags |-> NoTags]
    ELSE IF m.kind = "corrupt" THEN [none |-> TRUE, tags |-> NoTags]
    ELSE [none |-> FALSE, tags |-> m.tags]

\* ExifExtractor._extract_exif_dict: None when PIL cannot open the file,
\* when the image has no exif, and when piexif.load raises
ExtractExifDict(files, path, m) ==
    IF files[path.file] # "file" THEN [none |-> TRUE, tags |-> NoTags]
    ELSE IF m.kind # "dict" THEN [none |-> TRUE, tags |-> NoTags]
    ELSE [none |-> FALSE, tags |-> m.tags]

NoRow == ExifData(0, NoTags, NoGps)

\* the end of extract_from_image: "if not exif_dict: return None", else the
\* row is added and committed; exif_data.image_id is unique, a second row
\* for the image makes the commit raise
StoreExif(tab, image_id, d) ==
    IF d.none THEN [ret |-> "None", exif |-> tab, row |-> NoRow]
    ELSE IF \E r \in tab : r.image_id = image_id
    THEN [ret |-> "IntegrityError", exif |-> tab, row |-> NoRow]
    ELSE [ret |-> "ExifData",
          exif |-> tab \cup {ExifData(image_id, d.tags, ExtractGps(d.tags))},
          row |-> ExifData(image_id, d.tags, ExtractGps(d.tags))]

\* ExifExtractor.extract_from_image
ExtractFromImage(imgs, files, m, tab, image_id) ==
    IF ~\E im \in imgs : im.id = image_id
    THEN [ret |-> "ValueError", exif |-> tab, row |-> NoRow]
    ELSE StoreExif(tab, image_id,
                   ExtractExifDict(files, (CHOOSE im \in imgs : im.id = image_id).file_path, m))

\* ------------------------------------------------------------- the state

VARIABLES
    tree,         \* the disk: file -> "none" | "file" | "broken" (stat() fails)
    images,       \* table images: rows [id, file_path]
    analysis,     \* table ai_analysis
    tags,         \* table tags, in insertion order
    resp,         \* the text the vision service answered with (in a batch: to the last call)
    parseOut,     \* what _parse_response did with resp
    tagOut,       \* what _create_tags_from_analysis did with the parse result
    oneRet,       \* what analyze_image returned for resp
    scan,         \* per scan request: where scan_folder stands
    scanResult,   \* the answer of the scan request that has just ended
    quiet,        \* the scan request that has just begun, if any
    batch,        \* the batch request (POST /analyze, POST /extract-exif) in progress
    batchResult,  \* the answer of the batch request that has just ended
    meta,         \* what the image file read by the EXIF decoder holds
    exif,         \* table exif_data
    exifOut       \* what extract_from_image did last

dbVars == <<images, analysis, tags>>
parseVars == <<resp, parseOut, tagOut, oneRet>>
scanVars == <<scan, scanResult, quiet>>
batchVars == <<batch, batchResult>>
exifVars == <<meta, exif, exifOut>>
vars ==
    <<tree, images, analysis, tags, resp, parseOut, tagOut, oneRet, scan, scanResult, quiet,
      batch, batchResult, meta, exif, exifOut>>

NotRun == [exc |-> "notrun", val |-> NoResult]
TagsNotRun == [exc |-> "notrun", tags |-> <<>>]
ExifNotRun == [ret |-> "notrun", image_id |-> 0, row |-> NoRow]

\* no EXIF extraction is going on
exifIdle ==
    /\ meta = NoBlock
    /\ exif = {}
    /\ exifOut = ExifNotRun

\* ------------------------------------------------ the responses analysed

Alphabet ==
    {"Sure!", "{", "}", ",", "\"description\":\"a dog\"", "\"confidence\":null"}

FreeTexts == UNION {[1..n -> Alphabet] : n \in 0..MaxLen}

KeyOrder == <<"description", "objects", "people", "scene_type", "activities", "confidence", "mood">>

\* for one key: no member, or one of its member texts
Choices(key) == {<<>>} \cup {<<m.text>> : m \in {x \in MemberTable : x.key = key}}

RECURSIVE JoinMembers(_)
JoinMembers(parts) ==
    IF parts = <<>> THEN <<>>
    ELSE LET rest == JoinMembers(Tail(parts)) IN
         IF Head(parts) = <<>> THEN rest
         ELSE IF rest = <<>> THEN Head(parts)
         ELSE Head(parts) \o <<",">> \o rest

ObjectBodies ==
    {JoinMembers(<<c1, c2, c3, c4, c5, c6, c7>>) :
        c1 \in Choices(KeyOrder[1]), c2 \in Choices(KeyOrder[2]), c3 \in Choices(KeyOrder[3]),
        c4 \in Choices(KeyOrder[4]), c5 \in Choices(KeyOrder[5]), c6 \in Choices(KeyOrder[6]),
        c7 \in Choices(KeyOrder[7])}

\* prose, one object, prose
ObjectTexts ==
    {pre \o <<"{">> \o body \o <<"}">> \o post :
        pre \in {<<>>, <<"Sure!">>}, body \in ObjectBodies, post \in {<<>>, <<"Hope that helps!">>}}

Responses == FreeTexts \cup ObjectTexts

\* ------------------------------------- one response through the analyzer

OneImage == {[id |-> 1, file_path |-> PathOf("abs", 1)]}

ParseInit ==
    /\ resp \in Responses
    /\ parseOut = NotRun
    /\ tagOut = TagsNotRun
    /\ oneRet = "notrun"
    /\ tree = [f \in Files |-> "file"]
    /\ images = OneImage
    /\ analysis = {}
    /\ tags = <<>>
    /\ scan = [p \in Scanners |-> ScanIdle]
    /\ scanResult = NoScanResult
    /\ quiet = Nobody
    /\ batch = BatchIdle
    /\ batchResult = NoBatchResult
    /\ exifIdle

\* _parse_response(raw_response)
DoParse ==
    /\ parseOut.exc = "notrun"
    /\ parseOut' = ParseResponse(resp)
    /\ UNCHANGED <<tree, images, analysis, tags, resp, tagOut, oneRet, scanVars, batchVars, exifVars>>

\* _create_tags_from_analysis(image_id, analysis_data)
DoTags ==
    /\ parseOut.exc = "none"
    /\ tagOut.exc = "notrun"
    /\ tagOut' = CreateTags(1, WithRaw(parseOut.val, resp))
    /\ UNCHANGED <<tree, images, analysis, tags, resp, parseOut, oneRet, scanVars, batchVars, exifVars>>

\* analyze_image(db, 1) with the service answering resp
DoAnalyze ==
    /\ oneRet = "notrun"
    /\ LET r == AnalyzeImage(images, tree, analysis, tags, NewSession, 1, ServiceText(resp)) IN
         /\ oneRet' = r.ret
         /\ analysis' = r.analysis
         /\ tags' = r.tags
    /\ UNCHANGED <<tree, images, resp, parseOut, tagOut, scanVars, batchVars, exifVars>>

ParseNext == DoParse \/ DoTags \/ DoAnalyze

SpecParse == ParseInit /\ [][ParseNext]_vars

\* ------------------------------------------- properties of the analyzer

Parsed == parseOut.exc # "notrun"

\* the span the regex hands to json.loads, and its decode
SpanOf(text) == LET m == BraceSpan(text) IN SubSeq(text, m.from, m.to)
SpanDecodes(text) == BraceSpan(text).found /\ JsonLoads(SpanOf(text)).ok

\* the first brace-delimited span: from the first "{" to the first "}" after it
FirstSpan(text) ==
    LET i == SetMin({x \in 1..Len(text) : text[x] = "{"})
        j == SetMin({x \in 1..Len(text) : x > i /\ text[x] = "}"})
    IN [from |-> i, to |-> j]
FirstObject(text) == JsonLoads(SubSeq(text, FirstSpan(text).from, FirstSpan(text).to))

\* the value a well-formed confidence member stands for
NumericConfidence(obj) ==
    obj["confidence"] = Absent \/ obj["confidence"].t = "num"
ConfidenceOf(obj) ==
    IF obj["confidence"] = Absent THEN DefaultConfidence ELSE obj["confidence"].n

\* C3: for every response text the parser returns a result (structured or
\* fallback) and never raises, and so analyze_image stores an AIAnalysis
\* for every response received.
C3_ParseNeverRaises ==
    /\ Parsed => parseOut.exc = "none"
    /\ (oneRet # "notrun" /\ tagOut.exc = "none")
       => (oneRet = "AIAnalysis" /\ \E a \in analysis : a.image_id = 1)

\* C5: when the first {...} span is a valid object and a "}" follows it
\* later in the text, the result is the structured decode of that first
\* object, not the fallback.
C5_FirstSpanOnly ==
    (/\ Parsed
     /\ BraceSpan(resp).found
     /\ FirstObject(resp).ok
     /\ NumericConfidence(FirstObject(resp).obj)
     /\ \E k \in 1..Len(resp) : k > FirstSpan(resp).to /\ resp[k] = "}")
    => /\ parseOut.exc = "none"
       /\ parseOut.val.description = Get(FirstObject(resp).obj, "description", Str(<<>>))
       /\ parseOut.val.confidence = ConfidenceOf(FirstObject(resp).obj)

\* brace-free prose, one valid object, brace-free prose
ProseObjectProse(text) ==
    /\ Cardinality({x \in 1..Len(text) : text[x] = "{"}) = 1
    /\ Cardinality({x \in 1..Len(text) : text[x] = "}"}) = 1
    /\ SpanDecodes(text)

\* C6: for brace-free prose, one valid JSON object, brace-free prose, the
\* parse result takes description, objects, people, scene_type, activities
\* and confidence from the object and ignores the prose.
C6_ProseAroundObject ==
    (Parsed /\ ProseObjectProse(resp))
    => LET obj == JsonLoads(SpanOf(resp)).obj IN
       /\ parseOut.exc = "none"
       /\ parseOut.val.description = Get(obj, "description", Str(<<>>))
       /\ parseOut.val.objects = Get(obj, "objects", List(<<>>))
       /\ parseOut.val.people = Get(obj, "people", List(<<>>))
       /\ parseOut.val.scene_type = Get(obj, "scene_type", Str(<<"unknown">>))
       /\ parseOut.val.activities = Get(obj, "activities", List(<<>>))
       /\ obj["confidence"] # Absent => parseOut.val.confidence = Float(obj["confidence"]).f

\* C7: when the span decodes, absent fields get their defaults ("" / [] /
\* "unknown" / 0.5), present fields are kept, and the object is never
\* rejected: analyze_image stores an AIAnalysis for it.
C7_DefaultsNeverRejected ==
    /\ (Parsed /\ SpanDecodes(resp))
       => LET obj == JsonLoads(SpanOf(resp)).obj IN
          /\ parseOut.exc = "none"
          /\ \A k \in Keys \ {"confidence"} :
                parseOut.val[k] = (IF obj[k] # Absent THEN obj[k]
                                   ELSE IF k = "description" THEN Str(<<>>)
                                   ELSE IF k = "scene_type" THEN Str(<<"unknown">>)
                                   ELSE List(<<>>))
          /\ obj["confidence"] = Absent => parseOut.val.confidence = 5
    /\ (oneRet # "notrun" /\ SpanDecodes(resp))
       => (oneRet = "AIAnalysis" /\ \E a \in analysis : a.image_id = 1)

\* C8: with no brace-delimited span, or a span json.loads rejects, the
\* result is exactly description = the whole raw text, scene_type =
\* "unknown", objects = people = activities = [], confidence = 0.3.
C8_FallbackExact ==
    (Parsed /\ ~SpanDecodes(resp))
    => /\ parseOut.exc = "none"
       /\ parseOut.val = [description |-> Str(resp), objects |-> List(<<>>),
                          people |-> List(<<>>), scene_type |-> Str(<<"unknown">>),
                          activities |-> List(<<>>), confidence |-> 3]

\* C8 witness: a span was found, json.loads rejected it, and the parser ran
C8_Witness ==
    /\ Parsed
    /\ BraceSpan(resp).found
    /\ ~JsonLoads(SpanOf(resp)).ok
    /\ parseOut.val.description = Str(resp)

\* C9: every stored AIAnalysis carries in raw_response the exact text the
\* service returned, on the structured path and on the fallback path.
C9_RawVerbatim ==
    \A a \in analysis : a.raw_response = resp

\* C9 witness: a record stored from the structured path, around prose
C9_Witness ==
    /\ \E a \in analysis : a.image_id = 1 /\ a.description = Str(<<"a dog">>)
    /\ SpanDecodes(resp)
    /\ SpanOf(resp) # resp

\* C10: no derived tag has an empty label, and every label is the
\* lower-cased, trimmed form of its source string; a source string that is
\* empty after trimming gives no tag.
C10_NoEmptyLabel ==
    tagOut.exc = "none"
    => \A i \in 1..Len(tagOut.tags) :
          /\ tagOut.tags[i].tag_name # <<>>
          /\ Strip(Lower(tagOut.tags[i].tag_name)) = tagOut.tags[i].tag_name

\* the entries of a list that are non-empty strings
NonEmptyStrings(v) == {i \in 1..Len(v.l) : v.l[i].t = "str" /\ v.l[i].s # <<>>}

\* the derived tags of one category
TagsOfType(tgs, type) == {i \in 1..Len(tgs) : tgs[i].tag_type = type}

\* C11: tag derivation returns, for every analysis result, exactly one
\* object tag per non-empty string in objects, one person tag per (non-empty
\* string) entry in people, one scene tag when scene_type is non-empty, one
\* activity tag per entry in activities, and no other tag; the tags
\* analyze_image stores for the same result are the same tags.
C11_OneTagPerEntry ==
    /\ tagOut.exc # "notrun"
       => /\ tagOut.exc = "none"
          /\ Cardinality(TagsOfType(tagOut.tags, "object"))
                = Cardinality(NonEmptyStrings(parseOut.val.objects))
          /\ Cardinality(TagsOfType(tagOut.tags, "person"))
                = Cardinality(NonEmptyStrings(parseOut.val.people))
          /\ Cardinality(TagsOfType(tagOut.tags, "scene"))
                = (IF Truthy(parseOut.val.scene_type) THEN 1 ELSE 0)
          /\ Cardinality(TagsOfType(tagOut.tags, "activity"))
                = Cardinality(NonEmptyStrings(parseOut.val.activities))
          /\ \A i \in 1..Len(tagOut.tags) :
                /\ tagOut.tags[i].tag_type \in {"object", "person", "scene", "activity"}
                /\ tagOut.tags[i].image_id = 1
    /\ (tagOut.exc = "none" /\ oneRet = "AIAnalysis") => tags = tagOut.tags

\* C12: every derived tag has the confidence of the analysis result it was
\* derived from, and every stored tag the confidence_score of the
\* AIAnalysis stored for its image.
C12_TagConfidence ==
    /\ tagOut.exc = "none"
       => \A i \in 1..Len(tagOut.tags) : tagOut.tags[i].confidence = parseOut.val.confidence
    /\ \A i \in 1..Len(tags) :
          \E a \in analysis : /\ a.image_id = tags[i].image_id
                              /\ a.confidence_score = tags[i].confidence

\* C12 witness: tags were derived and stored for a result whose confidence
\* is neither the default nor the fallback's
C12_Witness ==
    /\ tagOut.exc = "none"
    /\ Len(tagOut.tags) >= 3
    /\ Len(tags) >= 3
    /\ parseOut.val.confidence = 9

\* ------------------------------------------------------------- scanning

parseIdle ==
    /\ resp = <<>>
    /\ parseOut = NotRun
    /\ tagOut = TagsNotRun
    /\ oneRet = "notrun"

ScanInit ==
    /\ tree \in [Files -> {"none", "file", "broken"}]
    /\ images = {}
    /\ analysis = {}
    /\ tags = <<>>
    /\ scan = [p \in Scanners |-> ScanIdle]
    /\ scanResult = NoScanResult
    /\ quiet = Nobody
    /\ batch = BatchIdle
    /\ batchResult = NoBatchResult
    /\ parseIdle
    /\ exifIdle

\* the disk changes: a file appears, becomes a dangling link, or goes
SetFile(f, what) ==
    /\ tree[f] # what
    /\ tree' = [tree EXCEPT ![f] = what]
    /\ scanResult' = NoScanResult
    /\ quiet' = Nobody
    /\ batchResult' = NoBatchResult
    /\ UNCHANGED <<dbVars, parseVars, scan, batch, exifVars>>

\* POST /scan up to the first await of scan_folder: the folder is checked,
\* then the known paths are read from the table
ScanBegin(p, root, recursive) ==
    /\ scan[p].pc = "idle"
    /\ IF RootCheck(root).status # "ok"
       THEN /\ scanResult' = [NoScanResult EXCEPT !.status = RootCheck(root).status,
                                                  !.detail = RootCheck(root).detail,
                                                  !.root = root, !.recursive = recursive]
            /\ quiet' = Nobody
            /\ UNCHANGED scan
       ELSE /\ scan' = [scan EXCEPT ![p] = [pc |-> "walking", root |-> root,
                                           recursive |-> recursive,
                                           existing |-> {im.file_path : im \in images}]]
            /\ quiet' = [who |-> p,
                         follows |-> /\ scanResult.status = "ok"
                                     /\ scanResult.clean
                                     /\ scanResult.root = root
                                     /\ scanResult.recursive = recursive]
            /\ scanResult' = NoScanResult
    /\ batchResult' = NoBatchResult
    /\ UNCHANGED <<tree, dbVars, parseVars, batch, exifVars>>

\* the rest of scan_folder: find the image files, loop over them, commit.
\* A failed commit leaves scan_folder as an exception and inserts nothing
ScanFinish(p) ==
    /\ scan[p].pc = "walking"
    /\ LET me == scan[p]
           image_files == SetToSeq(Found(tree, me.root, me.recursive))
           r == ScanLoop(image_files, me.root.form, me.existing, tree, NoCounts)
           failed == PathConflict(images, r.staged)
       IN /\ images' = IF failed THEN images ELSE images \cup Inserted(images, r.staged)
          /\ scanResult' =
               IF failed
               THEN [NoScanResult EXCEPT !.status = "HTTP500",
                                         !.detail = "Error scanning folder: IntegrityError",
                                         !.root = me.root,
                                         !.recursive = me.recursive,
                                         !.clean = (quiet.who = p),
                                         !.second = (quiet.who = p /\ quiet.follows)]
               ELSE [status |-> "ok", detail |-> "", root |-> me.root,
                     recursive |-> me.recursive,
                     found |-> Len(image_files), new |-> r.new, skipped |-> r.skipped,
                     errors |-> r.errors, error_files |-> r.error_files,
                     clean |-> (quiet.who = p), second |-> (quiet.who = p /\ quiet.follows)]
    /\ scan' = [scan EXCEPT ![p] = ScanIdle]
    /\ quiet' = Nobody
    /\ batchResult' = NoBatchResult
    /\ UNCHANGED <<tree, analysis, tags, parseVars, batch, exifVars>>

\* DELETE /clear-all: every row of every table goes, in one commit
ClearAll ==
    /\ images # {}
    /\ images' = {}
    /\ analysis' = {}
    /\ tags' = <<>>
    /\ scanResult' = NoScanResult
    /\ quiet' = Nobody
    /\ exif' = {}
    /\ batchResult' = NoBatchResult
    /\ UNCHANGED <<tree, parseVars, scan, batch, meta, exifOut>>

ScanNext ==
    \/ \E f \in Files, what \in {"none", "file", "broken"} : SetFile(f, what)
    \/ \E p \in Scanners, root \in Roots, recursive \in BOOLEAN : ScanBegin(p, root, recursive)
    \/ \E p \in Scanners : ScanFinish(p)
    \/ ClearAll

SpecScan == ScanInit /\ [][ScanNext]_vars

\* ------------------------------------------------------ batch analysis

\* POST /analyze up to its loop: the images are selected; with none the
\* summary is returned at once
BatchBegin(request) ==
    /\ batch.pc = "idle"
    /\ LET ids == SetToSeq(Selected(images, analysis, request)) IN
         IF ids = <<>>
         THEN /\ batchResult' = [NoBatchResult EXCEPT !.status = "returned"]
              /\ UNCHANGED batch
         ELSE /\ batch' = [BatchIdle EXCEPT !.pc = "running", !.todo = ids, !.total = Len(ids)]
              /\ batchResult' = NoBatchResult
    /\ resp' = <<>>
    /\ scanResult' = NoScanResult
    /\ quiet' = Nobody
    /\ UNCHANGED <<tree, dbVars, parseOut, tagOut, oneRet, scan, exifVars>>

\* the counters after analyze_image did r for image id: a return counts as
\* a success, an exception as an error with its detail
Account(b, id, r, outcome, raised) ==
    [b EXCEPT
       !.pc = "running",
       !.seen = {},
       !.todo = Tail(@),
       !.session = r.session,
       !.success = IF raised THEN @ ELSE @ + 1,
       !.errors = IF raised THEN @ + 1 ELSE @,
       !.error_details = IF raised THEN Append(@, [image_id |-> id, error |-> r.ret]) ELSE @,
       !.serviceErrors = IF r.called /\ outcome.kind = "error" THEN @ + 1 ELSE @,
       !.otherFailures = IF raised /\ ~r.called THEN @ + 1 ELSE @]

\* after the last image the summary is returned and the session closed
LoopOn(b) ==
    IF b.todo = <<>>
    THEN /\ batch' = BatchIdle
         /\ batchResult' = Summary(b)
    ELSE /\ batch' = b
         /\ batchResult' = NoBatchResult

\* the request ends in an exception; its session is closed and what it
\* had staged is dropped
LoopRaises ==
    /\ batch' = BatchIdle
    /\ batchResult' = BatchRaised

\* the body of the loop after analyze_image did r: the except clause reads
\* image.id and image.file_name, which raises when r's rollback has expired
\* the image
Round(id, r, outcome) ==
    /\ analysis' = r.analysis
    /\ tags' = r.tags
    /\ resp' = IF r.called THEN outcome.text ELSE <<>>
    /\ IF r.ret \notin {"None", "AIAnalysis"} /\ r.session.expired
       THEN LoopRaises
       ELSE LoopOn(Account(batch, id, r, outcome, r.ret \notin {"None", "AIAnalysis"}))

\* one round of the loop of analyze_images: analyze_image for the next
\* image, the service doing what outcome says.  "image.id" is read first:
\* with the images expired by an earlier rollback it raises inside the try,
\* and again inside the except clause
BatchStep(outcome) ==
    /\ batch.pc = "running"
    /\ IF batch.session.expired
       THEN LoopRaises /\ resp' = <<>> /\ UNCHANGED <<analysis, tags>>
       ELSE Round(Head(batch.todo),
                  AnalyzeImage(images, tree, analysis, tags, batch.session, Head(batch.todo),
                               outcome),
                  outcome)
    /\ scanResult' = NoScanResult
    /\ quiet' = Nobody
    /\ UNCHANGED <<tree, images, parseOut, tagOut, oneRet, scan, exifVars>>

\* the tables a batch starts from: images the scanner has recorded
BatchInit ==
    /\ tree = [f \in Files |-> "file"]
    /\ \E n \in 1..NumFiles : images = {[id |-> i, file_path |-> PathOf("abs", i)] : i \in 1..n}
    /\ analysis = {}
    /\ tags = <<>>
    /\ scan = [p \in Scanners |-> ScanIdle]
    /\ scanResult = NoScanResult
    /\ quiet = Nobody
    /\ batch = BatchIdle
    /\ batchResult = NoBatchResult
    /\ parseIdle
    /\ exifIdle

\* a recorded file is deleted from the disk
RemoveFile(f) ==
    /\ tree[f] = "file"
    /\ tree' = [tree EXCEPT ![f] = "none"]
    /\ batchResult' = NoBatchResult
    /\ resp' = <<>>
    /\ UNCHANGED <<dbVars, parseOut, tagOut, oneRet, scanVars, batch, exifVars>>

BatchNext ==
    \/ \E request \in Requests : BatchBegin(request)
    \/ \E outcome \in ServiceOutcomes : BatchStep(outcome)
    \/ \E f \in Files : RemoveFile(f)

SpecBatch == BatchInit /\ [][BatchNext]_vars

\* -------------------------------------- one file through the EXIF decoder

\* the tag values the files carry: well-formed ones and the malformed ones
\* cameras and editors write (a date of zeros, the 29th of February 2023,
\* bytes that are no UTF-8, zero denominators)
DateOriginals == {XAbsent, XDateBytes(<<2024, 1, 2, 3, 4, 5>>), XDateBytes(<<0, 0, 0, 0, 0, 0>>)}
DateGenerics ==
    {XAbsent, XDateBytes(<<2023, 12, 31, 23, 59, 59>>), XDateBytes(<<2023, 2, 29, 0, 0, 0>>)}
Makes == {XBytes(<<"C", "a", "n", "o", "n", " ">>), XBadBytes}
FNumbers == {XRat(28, 10), XRat(28, 0)}
ExposureTimes == {XAbsent, XRat(1, 500), XRat(1, 0), XInt(2)}
Latitudes ==
    {XAbsent, XDms(<< <<48, 1>>, <<51, 1>>, <<296, 10>> >>), XDms(<< <<48, 1>>, <<51, 1>>, <<296, 0>> >>)}
LatitudeRefs == {XAbsent, XBytes(<<"N">>), XBytes(<<"S">>)}
Longitudes ==
    {XAbsent, XDms(<< <<2, 1>>, <<17, 1>>, <<40, 1>> >>), XDms(<< <<2, 1>>, <<17, 0>>, <<40, 1>> >>)}
LongitudeRefs == {XAbsent, XBytes(<<"E">>), XBytes(<<"W">>)}
Altitudes == {XAbsent, XRat(35, 1), XRat(35, 0)}

\* the tags every block of the catalogue has
CommonTags ==
    [NoTags EXCEPT !.Model = XBytes(<<"E", "O", "S">>), !.ISOSpeedRatings = XInt(100),
                   !.FocalLength = XRat(50, 1), !.Orientation = XInt(1),
                   !.PixelXDimension = XInt(40), !.PixelYDimension = XRat(30, 1)]

Blocks ==
    {Block([CommonTags EXCEPT !.DateTimeOriginal = o, !.DateTime = g, !.Make = mk,
                              !.FNumber = fn, !.ExposureTime = et, !.GPSLatitude = la,
                              !.GPSLatitudeRef = lar, !.GPSLongitude = lo,
                              !.GPSLongitudeRef = lor, !.GPSAltitude = al]) :
        o \in DateOriginals, g \in DateGenerics, mk \in Makes, fn \in FNumbers,
        et \in ExposureTimes, la \in Latitudes, lar \in LatitudeRefs, lo \in Longitudes,
        lor \in LongitudeRefs, al \in Altitudes}

\* two images the scanner has recorded
TwoImages == {[id |-> i, file_path |-> PathOf("abs", i)] : i \in 1..2}

\* a row extracted earlier for image 2, from a block without tags
EarlierRow == ExifData(2, NoTags, NoGps)

\* every file holds meta; a file that is gone holds nothing
ExifInit ==
    /\ \/ /\ meta \in Blocks
          /\ tree = [f \in Files |-> "file"]
       \/ /\ meta \in {NoBlock, CorruptBlock}
          /\ tree \in {[f \in Files |-> "file"], [f \in Files |-> IF f = 1 THEN "none" ELSE "file"]}
    /\ exif \in {{}, {EarlierRow}}
    /\ exifOut = ExifNotRun
    /\ images = TwoImages
    /\ analysis = {}
    /\ tags = <<>>
    /\ scan = [p \in Scanners |-> ScanIdle]
    /\ scanResult = NoScanResult
    /\ quiet = Nobody
    /\ batch = BatchIdle
    /\ batchResult = NoBatchResult
    /\ parseIdle

\* what extract_from_image did, for the record
Extracted(image_id, r) ==
    /\ exif' = r.exif
    /\ exifOut' = [ret |-> r.ret, image_id |-> image_id, row |-> r.row]

\* extract_exif(db, image_id)
DoExtract(image_id) ==
    /\ exifOut.ret = "notrun"
    /\ Extracted(image_id, ExtractFromImage(images, tree, meta, exif, image_id))
    /\ UNCHANGED <<tree, dbVars, parseVars, scanVars, batchVars, meta>>

\* ids asked for: the two images and one that is not in the table
ExifNext == \E image_id \in 1..3 : DoExtract(image_id)

SpecExif == ExifInit /\ [][ExifNext]_vars

\* ------------------------------------------- the routes working together

\* the query of extract_exif_batch: the images without an exif_data row
Missing(imgs, tab) == {im.id : im \in {x \in imgs : ~\E e \in tab : e.image_id = x.id}}

\* what the files of the library hold: no EXIF block, or a block
LibraryBlocks == {NoBlock, Block(CommonTags)}

\* the answers of the service while the routes work together
LibraryOutcomes == {ServiceError, ServiceText(<<"Sure!">>)}

\* the folder the library is scanned from
LibraryRoot == [form |-> "abs", kind |-> "top"]

\* POST /extract-exif up to its loop
ExtractBegin ==
    /\ batch.pc = "idle"
    /\ LET ids == SetToSeq(Missing(images, exif)) IN
         IF ids = <<>>
         THEN /\ batchResult' = [NoBatchResult EXCEPT !.status = "returned",
                                                      !.route = "extract-exif"]
              /\ UNCHANGED batch
         ELSE /\ batch' = [BatchIdle EXCEPT !.pc = "running", !.route = "extract-exif",
                                            !.todo = ids, !.total = Len(ids)]
              /\ batchResult' = NoBatchResult
    /\ resp' = <<>>
    /\ scanResult' = NoScanResult
    /\ quiet' = Nobody
    /\ UNCHANGED <<tree, dbVars, parseOut, tagOut, oneRet, scan, exifVars>>

\* what a unit of work returns when it raised before it touched a table
Refused(ret, sess) ==
    [ret |-> ret, analysis |-> analysis, tags |-> tags, session |-> sess, called |-> FALSE]

\* the unit of work has read its image and goes on without an await
Working ==
    /\ batch' = [batch EXCEPT !.pc = "working", !.seen = images]
    /\ batchResult' = NoBatchResult
    /\ UNCHANGED <<analysis, tags, resp>>

\* a round of either loop up to the first await of the unit of work:
\* image.id is read, then the image is selected
Lookup(route) ==
    /\ batch.pc = "running"
    /\ batch.route = route
    /\ IF batch.session.expired
       THEN LoopRaises /\ UNCHANGED <<analysis, tags, resp>>
       ELSE IF SelectImage(images, analysis, batch.session, Head(batch.todo)).ret = "Image"
       THEN Working
       ELSE Round(Head(batch.todo),
                  Refused(SelectImage(images, analysis, batch.session, Head(batch.todo)).ret,
                          SelectImage(images, analysis, batch.session, Head(batch.todo)).session),
                  ServiceError)
    /\ scanResult' = NoScanResult
    /\ quiet' = Nobody
    /\ UNCHANGED <<tree, images, parseOut, tagOut, oneRet, scan, exifVars>>

\* the rest of analyze_image for the image selected, the service doing
\* what outcome says
AnalyzeFinish(outcome) ==
    /\ batch.pc = "working"
    /\ batch.route = "analyze"
    /\ Round(Head(batch.todo),
             AnalyzeSelected(batch.seen, tree, analysis, tags, batch.session, Head(batch.todo),
                             outcome),
             outcome)
    /\ scanResult' = NoScanResult
    /\ quiet' = Nobody
    /\ UNCHANGED <<tree, images, parseOut, tagOut, oneRet, scan, exifVars>>

\* the loop body of extract_exif_batch after extract_from_image did r: a
\* rejected commit has rolled the session back
Extraction(r) ==
    /\ exif' = r.exif
    /\ Round(Head(batch.todo),
             Refused(r.ret, IF r.ret = "IntegrityError"
                            THEN [NewSession EXCEPT !.expired = TRUE]
                            ELSE batch.session),
             ServiceError)

\* the rest of extract_from_image for the image selected
ExtractFinish ==
    /\ batch.pc = "working"
    /\ batch.route = "extract-exif"
    /\ Extraction(ExtractFromImage(batch.seen, tree, meta, exif, Head(batch.todo)))
    /\ scanResult' = NoScanResult
    /\ quiet' = Nobody
    /\ UNCHANGED <<tree, images, parseOut, tagOut, oneRet, scan, meta, exifOut>>

\* extract_exif for an image without a row, done by another request
\* (POST /process-all, POST /upload-and-process, a second POST /extract-exif)
ExtractElsewhere(image_id) ==
    /\ image_id \in Missing(images, exif)
    /\ ExtractFromImage(images, tree, meta, exif, image_id).ret = "ExifData"
    /\ exif' = ExtractFromImage(images, tree, meta, exif, image_id).exif
    /\ batchResult' = NoBatchResult
    /\ scanResult' = NoScanResult
    /\ quiet' = Nobody
    /\ UNCHANGED <<tree, dbVars, parseVars, scan, batch, meta, exifOut>>

\* an empty library whose files all hold the same kind of metadata
LibraryInit ==
    /\ tree = [f \in Files |-> "file"]
    /\ meta \in LibraryBlocks
    /\ images = {}
    /\ analysis = {}
    /\ tags = <<>>
    /\ exif = {}
    /\ exifOut = ExifNotRun
    /\ scan = [p \in Scanners |-> ScanIdle]
    /\ scanResult = NoScanResult
    /\ quiet = Nobody
    /\ batch = BatchIdle
    /\ batchResult = NoBatchResult
    /\ parseIdle

LibraryNext ==
    \/ ScanBegin("s1", LibraryRoot, TRUE)
    \/ ScanFinish("s1")
    \/ ExtractBegin
    \/ \E request \in Requests : BatchBegin(request)
    \/ \E route \in {"analyze", "extract-exif"} : Lookup(route)
    \/ \E outcome \in LibraryOutcomes : AnalyzeFinish(outcome)
    \/ ExtractFinish
    \/ \E image_id \in Files : ExtractElsewhere(image_id)
    \/ \E f \in Files : RemoveFile(f)
    \/ ClearAll

SpecLibrary == LibraryInit /\ [][LibraryNext]_vars

\* --------------------------------------- properties of the EXIF decoder

Stored == exifOut.ret = "ExifData"

\* C13: a shutter speed given as the rational (n, d) is stored as the text
\* "n/d" when d is not 0 and as unknown (NULL) when d = 0.
C13_ShutterRational ==
    (Stored /\ meta.tags.ExposureTime.t = "rat")
    => exifOut.row.shutter_speed
         = (IF meta.tags.ExposureTime.d # 0
            THEN OStr(<<ToString(meta.tags.ExposureTime.n), "/",
                        ToString(meta.tags.ExposureTime.d)>>)
            ELSE ONull)

\* the column a tag is read for
ColumnOf(tag) ==
    CASE tag \in {"DateTimeOriginal", "DateTime"} -> "date_taken"
      [] tag = "Make" -> "camera_make"
      [] tag = "Model" -> "camera_model"
      [] tag = "LensModel" -> "lens_model"
      [] tag = "ISOSpeedRatings" -> "iso"
      [] tag = "FNumber" -> "aperture"
      [] tag = "ExposureTime" -> "shutter_speed"
      [] tag = "FocalLength" -> "focal_length"
      [] tag = "Orientation" -> "orientation"
      [] tag = "PixelXDimension" -> "width"
      [] tag = "PixelYDimension" -> "height"
      [] tag \in {"GPSLatitude", "GPSLatitudeRef"} -> "gps_latitude"
      [] tag \in {"GPSLongitude", "GPSLongitudeRef"} -> "gps_longitude"
      [] OTHER -> "gps_altitude"

Columns == {ColumnOf(tag) : tag \in ExifTags}

\* the tag is there and its value is not of the form its column needs
Malformed(tag, v) ==
    /\ v.t # "absent"
    /\ CASE tag \in {"DateTimeOriginal", "DateTime"} -> ~DateOf(v).ok
         [] tag \in {"Make", "Model", "LensModel", "GPSLatitudeRef", "GPSLongitudeRef"} ->
              v.t # "bytes"
         [] tag \in {"ISOSpeedRatings", "Orientation", "PixelXDimension", "PixelYDimension"} ->
              v.t # "int"
         [] tag \in {"FNumber", "ExposureTime", "FocalLength", "GPSAltitude"} ->
              ~(v.t = "int" \/ (v.t = "rat" /\ v.d # 0))
         [] OTHER -> ~(v.t = "dms" /\ Len(v.dms) = 3 /\ \A i \in 1..3 : v.dms[i][2] # 0)

\* the row the same block gives without one tag
RowWithout(tag) ==
    ExifData(exifOut.image_id, [meta.tags EXCEPT ![tag] = XAbsent],
             ExtractGps([meta.tags EXCEPT ![tag] = XAbsent]))

\* C14: when one tag (a GPS component too) is malformed, every other column
\* of the stored row has the value it would have were that tag absent.
C14_FieldsIsolated ==
    Stored
    => \A tag \in ExifTags :
          Malformed(tag, meta.tags[tag])
          => \A c \in Columns \ {ColumnOf(tag)} : exifOut.row[c] = RowWithout(tag)[c]

Present(tag) == meta.tags[tag].t # "absent"

\* C15: gps_latitude is set only when GPSLatitude and GPSLatitudeRef are
\* both there, gps_longitude only when GPSLongitude and GPSLongitudeRef are.
C15_GpsNeedsRef ==
    \A r \in exif \ {EarlierRow} :
       /\ r.gps_latitude # ONull => (Present("GPSLatitude") /\ Present("GPSLatitudeRef"))
       /\ r.gps_longitude # ONull => (Present("GPSLongitude") /\ Present("GPSLongitudeRef"))

\* C15 witness: a row was stored from a block with a well-formed latitude
\* and no latitude reference, and with a complete longitude
C15_Witness ==
    /\ Stored
    /\ Present("GPSLatitude")
    /\ ~Malformed("GPSLatitude", meta.tags.GPSLatitude)
    /\ ~Present("GPSLatitudeRef")
    /\ exifOut.row.gps_latitude = ONull
    /\ exifOut.row.gps_longitude # ONull

\* v is the float sign * (deg + min / 60 + sec / 3600) of the three rationals
\* (both written over the common denominator of the three, times 3600)
IsDecimalOf(v, q, sign) ==
    LET common == q[1][2] * q[2][2] * q[3][2] * 3600 IN
    /\ v.t = "float"
    /\ v.den > 0
    /\ common % v.den = 0
    /\ sign * v.num * (common \div v.den)
         = q[1][1] * q[2][2] * q[3][2] * 3600
             + q[2][1] * q[1][2] * q[3][2] * 60
             + q[3][1] * q[1][2] * q[2][2]

\* the coordinate is three rationals with non-zero denominators and has its
\* reference
WellFormed(tag, ref) ==
    /\ Present(tag)
    /\ ~Malformed(tag, meta.tags[tag])
    /\ Present(ref)
    /\ ~Malformed(ref, meta.tags[ref])

\* C16: for a coordinate given as three rationals with non-zero
\* denominators the stored value is degrees + minutes/60 + seconds/3600,
\* negated for latitude exactly when the reference is S and for longitude
\* exactly when it is W; 48, 51, 29.6 gives 48.858222 (N), -48.858222 (S).
C16_GpsDecimal ==
    Stored
    => /\ WellFormed("GPSLatitude", "GPSLatitudeRef")
          => /\ IsDecimalOf(exifOut.row.gps_latitude, meta.tags.GPSLatitude.dms,
                            IF meta.tags.GPSLatitudeRef.s = <<"S">> THEN 0 - 1 ELSE 1)
             /\ Abs(exifOut.row.gps_latitude.num) \div exifOut.row.gps_latitude.den = 48
             /\ ((Abs(exifOut.row.gps_latitude.num) % exifOut.row.gps_latitude.den) * 1000000)
                   \div exifOut.row.gps_latitude.den = 858222
       /\ WellFormed("GPSLongitude", "GPSLongitudeRef")
          => IsDecimalOf(exifOut.row.gps_longitude, meta.tags.GPSLongitude.dms,
                         IF meta.tags.GPSLongitudeRef.s = <<"W">> THEN 0 - 1 ELSE 1)

\* the date text of a tag that is there and parses
Parses(tag) == Present(tag) /\ DateOf(meta.tags[tag]).ok

\* C17: date_taken is the parsed DateTimeOriginal when that tag is there,
\* else the parsed DateTime; it is unknown when each of the two is absent or
\* unparsable, and it is never anything but one of the two or unknown.
C17_DatePreference ==
    Stored
    => /\ Parses("DateTimeOriginal")
          => exifOut.row.date_taken = ODate(meta.tags.DateTimeOriginal.date)
       /\ (~Present("DateTimeOriginal") /\ Parses("DateTime"))
          => exifOut.row.date_taken = ODate(meta.tags.DateTime.date)
       /\ (~Parses("DateTimeOriginal") /\ ~Parses("DateTime"))
          => exifOut.row.date_taken = ONull
       /\ exifOut.row.date_taken
            \in {ONull, ODate(meta.tags.DateTimeOriginal.date), ODate(meta.tags.DateTime.date)}

\* C17 witness: no DateTimeOriginal, a DateTime that parses, and its date
\* in the stored row
C17_Witness ==
    /\ Stored
    /\ ~Present("DateTimeOriginal")
    /\ Parses("DateTime")
    /\ exifOut.row.date_taken = ODate(<<2023, 12, 31, 23, 59, 59>>)

\* the file of a recorded image has no block the decoder can parse
NoParseableBlock(image_id) ==
    /\ \E im \in images : im.id = image_id
    /\ \/ meta.kind # "dict"
       \/ \E im \in images : im.id = image_id /\ tree[im.file_path.file] # "file"

\* C18: for a file without a parseable block extract_from_image returns
\* None, raises nothing and leaves the exif_data table as it was.
C18_NoBlockNoRecord ==
    [][(exifOut.ret = "notrun" /\ exifOut'.ret # "notrun" /\ NoParseableBlock(exifOut'.image_id))
       => (exifOut'.ret = "None" /\ exif' = exif)]_vars

\* C18 witness: the decoder met a block piexif rejects while the table held
\* a row, and returned None
C18_Witness ==
    /\ exifOut.ret = "None"
    /\ meta.kind = "corrupt"
    /\ \E im \in images : im.id = exifOut.image_id
    /\ exif = {EarlierRow}

\* ------------------------------------ properties of scanner and batches

\* C1: a scan run right after a scan of the same folder returned, on an
\* unchanged tree and with nothing in between, returns new = 0 and
\* skipped = found, whatever the folder holds and however its path is
\* written.
C1_RescanSkipsAll ==
    scanResult.second
    => /\ scanResult.status = "ok"
       /\ scanResult.new = 0
       /\ scanResult.skipped = scanResult.found

\* C2: a batch over N images in which the service call raised for k of
\* them (and nothing else failed) returns total_processed = N, success =
\* N - k and errors = k.
C2_ServiceErrorsCounted ==
    (batchResult.status = "returned" /\ batchResult.otherFailures = 0)
    => /\ batchResult.errors = batchResult.serviceErrors
       /\ batchResult.success = batchResult.total_processed - batchResult.serviceErrors

\* C4: in every reachable state no two rows of the images table have the
\* same path: a path already recorded is never recorded under a second id,
\* whatever scans overlap, repeat or interleave.
C4_UniquePaths ==
    \A a \in images, b \in images : a.file_path = b.file_path => a.id = b.id

\* C4 witness: a scan of an existing folder ended in a rejected commit
\* while the table held both files
C4_Witness ==
    /\ scanResult.status = "HTTP500"
    /\ scanResult.root.kind \in {"top", "sub"}
    /\ Cardinality(images) = 2

\* the candidates of the scan request p is about to finish that are not
\* known to it, by whether stat() works on them
Unknown(p) ==
    {f \in Found(tree, scan[p].root, scan[p].recursive) :
        PathOf(scan[p].root.form, f) \notin scan[p].existing}
Failing(p) == {f \in Unknown(p) : tree[f] # "file"}
Accepted(p) == {f \in Unknown(p) : tree[f] = "file"}

\* C19: a scan that meets files it cannot stat still ends with a result:
\* errors counts those files, the error list names each with its message,
\* every other candidate is counted as new or skipped, and every accepted
\* file is in the table after the scan's commit.
C19_ErrorsDoNotStopScan ==
    [][\A p \in Scanners :
          (scan[p].pc = "walking" /\ scan'[p].pc = "idle" /\ Failing(p) # {})
          => /\ scanResult'.status = "ok"
             /\ scanResult'.errors = Cardinality(Failing(p))
             /\ SeqToSet(scanResult'.error_files)
                  = {[path |-> PathOf(scan[p].root.form, f), error |-> StatError] : f \in Failing(p)}
             /\ scanResult'.new = Cardinality(Accepted(p))
             /\ scanResult'.skipped
                  = Cardinality(Found(tree, scan[p].root, scan[p].recursive) \ Unknown(p))
             /\ \A f \in Accepted(p) : \E im \in images' : im.file_path = PathOf("abs", f)]_vars

\* C20: a scan of a path that does not exist fails as not found, a scan of
\* a path that is a file fails with another error, not a directory; neither
\* changes the images table.
C20_RootErrors ==
    [][(scanResult'.status # "none" /\ scanResult'.root.kind \in {"missing", "file"})
       => /\ images' = images
          /\ scanResult'.root.kind = "missing"
             => (scanResult'.status = "HTTP400" /\ scanResult'.detail = "Folder does not exist")
          /\ scanResult'.root.kind = "file"
             => /\ scanResult'.status = "HTTP500"
                /\ scanResult'.detail = "Error scanning folder: Path is not a directory"]_vars

\* C20 witness: a scan of a path that is a file was refused while the
\* table held images
C20_Witness ==
    /\ scanResult.status = "HTTP500"
    /\ scanResult.root.kind = "file"
    /\ images # {}

\* C27: for every scan that returns a result, found = new + skipped +
\* errors, the error list has exactly errors entries, and the number of
\* rows the scan added to the images table equals new.
C27_ScanCountsAddUp ==
    [][\A p \in Scanners :
          (scan[p].pc = "walking" /\ scan'[p].pc = "idle" /\ scanResult'.status = "ok")
          => /\ scanResult'.found
                  = scanResult'.new + scanResult'.skipped + scanResult'.errors
             /\ Len(scanResult'.error_files) = scanResult'.errors
             /\ Cardinality(images' \ images) = scanResult'.new
             /\ images \subseteq images']_vars

\* C27 witness: a scan returned a result with one new file and one
\* skipped file, and the table holds both
C27_Witness ==
    /\ scanResult.status = "ok"
    /\ scanResult.found = 2
    /\ scanResult.new = 1
    /\ scanResult.skipped = 1
    /\ Cardinality(images) = 2

\* ------------------------------------ properties of the stored records

\* C25: in every reachable state the confidence of every stored analysis
\* row and of every stored tag lies in [0.0, 1.0] (0..10 in tenths),
\* whatever confidence the response carries.
C25_ConfidenceInRange ==
    /\ \A a \in analysis : a.confidence_score >= 0 /\ a.confidence_score <= 10
    /\ \A i \in 1..Len(tags) : tags[i].confidence >= 0 /\ tags[i].confidence <= 10

\* the tags of one image, in insertion order
TagsOf(tgs, image_id) == SelectSeq(tgs, LAMBDA t : t.image_id = image_id)

\* what a response answers: the analysis data and the tags derived from it
Answer(text) == AnalyzeWithLlava(ServiceText(text))
Derived(image_id, text) == CreateTags(image_id, Answer(text).data)

\* the service answered text, the answer parsed and its tags were derived
Derives(image_id, text) ==
    /\ ~Answer(text).none
    /\ Derived(image_id, text).exc = "none"

\* C23: when analyze runs again on an image that already has an analysis
\* and the service's answer yields a tag set, the image's stored tags after
\* the run are exactly that tag set: no tag of the earlier run, no duplicate.
C23_TagsReplaced ==
    [][(/\ batch.pc = "running"
        /\ batch # batch'
        /\ \E a \in analysis : a.image_id = Head(batch.todo)
        /\ resp' # <<>>
        /\ Derives(Head(batch.todo), resp'))
       => TagsOf(tags', Head(batch.todo)) = Derived(Head(batch.todo), resp').tags]_vars

\* C24: in every committed state an image has an analysis row only together
\* with the complete tag set derived from that row's response; an analysis
\* whose tag derivation raised leaves nothing in the tables.
C24_AnalysisWithItsTags ==
    \A a \in analysis :
        /\ Derives(a.image_id, a.raw_response)
        /\ TagsOf(tags, a.image_id) = Derived(a.image_id, a.raw_response).tags

\* the unit of work under way finds the file of its image gone and raises
\* without calling the service
FileGone ==
    /\ batch.pc = "working"
    /\ \E im \in batch.seen : im.id = Head(batch.todo) /\ tree[im.file_path.file] = "none"

\* what the scheduling guarantees: a route that can take its next step
\* takes it, decoding a file ends, and so does a unit of work that does not
\* call the service; nothing makes the service answer, and the client is
\* built without a timeout (settings.ollama_timeout is never passed on), so
\* no step ends a call the service leaves unanswered
SpecLibraryFair ==
    /\ SpecLibrary
    /\ WF_vars(\E route \in {"analyze", "extract-exif"} : Lookup(route))
    /\ WF_vars(ExtractFinish)
    /\ WF_vars(FileGone /\ \E outcome \in LibraryOutcomes : AnalyzeFinish(outcome))

\* ------------------------------- properties of the routes working together

\* the shorter of two lengths
Min(a, b) == IF a < b THEN a ELSE b

\* C21: every extract-exif or analyze batch ends with a summary, whatever
\* fails for one image: total_processed is the number of images selected
\* and equals success + errors, and error_details holds the first
\* min(errors, 10) failures in processing order.
C21_BatchReturnsSummary ==
    [][(batch.pc # "idle" /\ batch'.pc = "idle")
       => /\ batchResult'.status = "returned"
          /\ batchResult'.total_processed = batch.total
          /\ batchResult'.total_processed = batchResult'.success + batchResult'.errors
          /\ Len(batchResult'.error_details) = Min(batchResult'.errors, ErrorDetailCap)
          /\ \A i \in 1..Min(Len(batch.error_details), ErrorDetailCap) :
                batchResult'.error_details[i] = batch.error_details[i]]_vars

\* C22: in every reachable state every exif_data row, every ai_analysis
\* row and every tag refers to a row of the images table.
C22_NoOrphans ==
    /\ \A e \in exif : \E im \in images : im.id = e.image_id
    /\ \A a \in analysis : \E im \in images : im.id = a.image_id
    /\ \A i \in 1..Len(tags) : \E im \in images : im.id = tags[i].image_id

\* a recorded image without an exif_data row whose file has no block the
\* decoder can parse
Unextractable(image_id) ==
    /\ NoParseableBlock(image_id)
    /\ ~\E e \in exif : e.image_id = image_id

\* a round of the extract-exif loop is about to end for such an image
ExtractsNoExif ==
    /\ batch.route = "extract-exif"
    /\ batch.pc = "working"
    /\ batch'.pc # "working"
    /\ Unextractable(Head(batch.todo))

\* an extract-exif run ends while such an image is among those it has
\* selected and not counted yet
EndsWithNoExif ==
    /\ batch.route = "extract-exif"
    /\ batch.pc # "idle"
    /\ batch'.pc = "idle"
    /\ \E i \in 1..Len(batch.todo) : Unextractable(batch.todo[i])

\* C28: an image whose file has no parseable EXIF gains no exif_data row;
\* every extract-exif run selects it, counts it under success and leaves
\* the table without a row for it, so no run returns total_processed = 0
\* while such an image exists.
C28_NoExifSelectedAgain ==
    [][/\ \A im \in images :
             Unextractable(im.id) => ~\E e \in exif' : e.image_id = im.id
       /\ (batch.pc = "idle" /\ batch'.pc = "running" /\ batch'.route = "extract-exif")
          => \A im \in images : Unextractable(im.id) => im.id \in SeqToSet(batch'.todo)
       /\ ExtractsNoExif
          => /\ exif' = exif
             /\ IF batch'.pc = "idle"
                THEN batchResult'.success = batch.success + 1
                ELSE batch'.success = batch.success + 1
       /\ EndsWithNoExif
          => /\ batchResult'.status = "returned"
             /\ Len(batch.todo) = 1
       /\ (/\ batchResult' # batchResult
           /\ batchResult'.status = "returned"
           /\ batchResult'.route = "extract-exif"
           /\ batchResult'.total_processed = 0)
          => ~\E im \in images : Unextractable(im.id)]_vars

\* C26: every call to the vision service made by a batch ends (by an
\* answer, an error or a timeout), after which the batch goes on to its
\* next image or to its summary.
C26_ServiceCallEnds ==
    (batch.route = "analyze" /\ batch.pc = "working") ~> (batch.pc # "working")

====
